---- MODULE Spec2Model ----
(***************************************************************************)
(* A model of book_scraper.py: the two site extractions, process_isbn,     *)
(* the thread-pool batch coordinator process_batch, the sequential         *)
(* queue-triggered path process_pubsub_message / process_isbn_batch, the   *)
(* status store and the sheet reconciler.                                  *)
(*                                                                         *)
(* Python strings that the code parses are sequences of one-character      *)
(* strings, so that split, strip and indexing are computed as the code     *)
(* computes them.                                                          *)
(***************************************************************************)
EXTENDS Integers, Sequences, FiniteSets, TLC

VARIABLES
    web,         \* per ISBN: what the two sites show for it during the run
    isbn_data,   \* process_batch: the batch, a sequence of <<isbn, row_index>>
    nsub,        \* process_batch: number of items submitted to the executor
    qhead,       \* executor: index of the next work item a worker will take
    fut,         \* executor: per submitted item, the state of its future
    mpc,         \* position of the coordinating thread
    mexc,        \* exception propagating in the coordinating thread ("none")
    results,     \* the results list of the batch entry point
    tpc,         \* per thread: position inside process_isbn ("idle" outside)
    tinv,        \* per thread: index of the item its process_isbn works on
    targ,        \* per thread: the arguments <<isbn, row_index>>
    driver,      \* per thread: the local variable driver (0: unbound)
    tA,          \* per thread: the local bookscouter_price
    tret,        \* per thread: the value process_isbn is returning
    texc,        \* per thread: the exception process_isbn is raising
    open,        \* sessions returned by init_driver and not yet quit
    orphans,     \* browsers started whose init_driver raised: nobody holds them
    calls,       \* per item: what its process_isbn did, in order
    uses,        \* set of <<session, item, call>>: who did what to a session
    xsite,       \* one extraction on its own: the site, "A" or "B"
    xpage,       \* one extraction on its own: the page it meets
    xout,        \* one extraction on its own: <<>>, then <<its outcome>>
    store,       \* isbn_processing_status: the set of its documents
    clock,       \* the status store's server time
    marks,       \* the writes update_processing_status made, in order
    got,         \* what the last check_processing_status returned, and for
                 \* which ISBN
    data,        \* message.data, decoded
    isbn_batch,  \* process_isbn_batch: its argument
    sheet,       \* the cells of the sheet
    spos,        \* update_google_sheet: <<index of the result, column>> next
    acked,       \* whether message.ack() was called
    hpc,         \* position of process_request ("none": no request)
    pull,        \* how streaming_pull_future.result() ended, or "running"
    cancelled,   \* whether streaming_pull_future.cancel() was called
    response     \* status of the HTTP response (0: none sent)

extractVars == <<xsite, xpage, xout>>

storeVars == <<store, clock, marks, got>>

httpVars == <<hpc, pull, cancelled, response>>

queueVars == <<data, isbn_batch, sheet, spos, acked, httpVars>>

vars == <<web, isbn_data, nsub, qhead, fut, mpc, mexc, results, tpc, tinv, targ,
          driver, tA, tret, texc, open, orphans, calls, uses, extractVars,
          storeVars, queueVars>>

----------------------------------------------------------------------------
(* Program constants and bounds *)

CONCURRENT_BROWSERS == 3

\* longest batch handed to process_batch
MaxBatch == 4

\* longest text of a page element
MaxText == 3

\* most writes to the status store in a run of the store on its own
MaxMarks == 3

\* latest server time of the status store
MaxClock == 3

\* most elements in the payload of a queue message
MaxMsg == 3

\* the columns update_google_sheet writes: E and F
ColE == 5

ColF == 6

----------------------------------------------------------------------------
(* Python string operations, on sequences of characters *)

Digits == {"0", "1", "2", "3", "4", "5", "6", "7", "8", "9"}

Whitespace == {" ", "\t", "\n"}

\* s[i:] of Python, i counted from 1
Drop(s, i) == SubSeq(s, i, Len(s))

\* index of the first occurrence of the character c in s, 0 when absent
RECURSIVE IndexOf(_, _, _)
IndexOf(s, c, i) ==
    IF i > Len(s) THEN 0
    ELSE IF s[i] = c THEN i
    ELSE IndexOf(s, c, i + 1)

\* s.split(sep) for a one-character separator: "".split(",") is [""]
RECURSIVE Split(_, _)
Split(s, sep) ==
    LET i == IndexOf(s, sep, 1)
    IN  IF i = 0 THEN <<s>>
        ELSE <<SubSeq(s, 1, i - 1)>> \o Split(Drop(s, i + 1), sep)

RECURSIVE LStrip(_, _)
LStrip(s, chars) ==
    IF s # <<>> /\ s[1] \in chars THEN LStrip(Tail(s), chars) ELSE s

RECURSIVE RStrip(_, _)
RStrip(s, chars) ==
    IF s # <<>> /\ s[Len(s)] \in chars
    THEN RStrip(SubSeq(s, 1, Len(s) - 1), chars)
    ELSE s

\* s.strip() is Strip(s, Whitespace); s.strip('$') is Strip(s, {"$"})
Strip(s, chars) == RStrip(LStrip(s, chars), chars)

\* whether the sequence sub occurs in s (Python's  sub in s)
Contains(s, sub) ==
    \E i \in 1..(Len(s) - Len(sub) + 1) : SubSeq(s, i, i + Len(sub) - 1) = sub

\* the sentinels 'N/A' and 'Not profitable'
NA == <<"N", "/", "A">>

NotProfitable ==
    <<"N", "o", "t", " ", "p", "r", "o", "f", "i", "t", "a", "b", "l", "e">>

----------------------------------------------------------------------------
(* Exceptions.  The selenium calls raise subclasses of WebDriverException; *)
(* indexing a too-short list raises IndexError.  All are subclasses of     *)
(* Exception.                                                              *)

SeleniumExc ==
    {"TimeoutException", "NoSuchElementException",
     "StaleElementReferenceException", "WebDriverException"}

ExceptionClass == SeleniumExc \cup {"IndexError", "ValueError"}

Return(v) == [kind |-> "return", val |-> v]

Raise(e) == [kind |-> "raise", val |-> e]

\* an except chain: the first clause whose classes hold e returns 'N/A';
\* with no such clause the exception leaves the function
Catch(clauses, e) ==
    IF \E k \in 1..Len(clauses) : e \in clauses[k]
    THEN Return(NA)
    ELSE Raise(e)

----------------------------------------------------------------------------
(* The two site extractions.  A page is what the site and the browser do   *)
(* during one call: which selenium call raises, if any, and the text the   *)
(* elements hold.                                                          *)

TextChars == {"$", "1", " ", "x"}

RECURSIVE SeqsUpTo(_, _)
SeqsUpTo(S, n) ==
    IF n = 0 THEN {<<>>}
    ELSE LET shorter == SeqsUpTo(S, n - 1)
         IN  shorter \cup {Append(s, c) : s \in shorter, c \in S}

Texts == SeqsUpTo(TextChars, MaxText)

\* site A: pre is the outcome of driver.get, the wait and the read of .text
PagesA ==
    {[pre |-> "ok", text |-> t] : t \in Texts}
    \cup {[pre |-> e, text |-> <<>>] : e \in SeleniumExc}

\* "This item is not profitable enough to sell."
Phrase ==
    <<"T", "h", "i", "s", " ", "i", "t", "e", "m", " ", "i", "s", " ",
      "n", "o", "t", " ", "p", "r", "o", "f", "i", "t", "a", "b", "l",
      "e", " ", "e", "n", "o", "u", "g", "h", " ", "t", "o", " ", "s",
      "e", "l", "l", ".">>

IndicatorTexts == {<<>>, Phrase, <<"x">> \o Phrase \o <<"x">>, Tail(Phrase)}

\* site B: pre is the outcome of the calls up to the click; probe that of the
\* wait for and read of the indicator; post that of the wait for and read
\* of the profit element
PagesB ==
    {[pre |-> e, probe |-> "ok", indicator |-> <<>>, post |-> "ok",
      profit |-> <<>>] : e \in SeleniumExc}
    \cup {[pre |-> "ok", probe |-> pr, indicator |-> ind, post |-> po,
           profit |-> t] :
            <<pr, ind>> \in ({"ok"} \X IndicatorTexts)
                              \cup (SeleniumExc \X {<<>>}),
            <<po, t>> \in ({"ok"} \X Texts) \cup (SeleniumExc \X {<<>>})}

\* the except clauses of fetch_bookscouter_data, in order
HandlersA_NoGeneric ==
    <<{"TimeoutException"}, {"NoSuchElementException"}>>

HandlersA ==
    <<{"TimeoutException"}, {"NoSuchElementException"}, ExceptionClass>>

\* the except clauses of fetch_restricted_inventory_data, in order
HandlersB ==
    <<{"TimeoutException"}, {"NoSuchElementException"},
      {"StaleElementReferenceException"}, ExceptionClass>>

\* variant: split('$', 1), which keeps everything after the first marker
fetch_bookscouter_data_split_once(page) ==
    IF page.pre # "ok" THEN Catch(HandlersA, page.pre)
    ELSE LET i == IndexOf(page.text, "$", 1)
         IN  IF i = 0 THEN Catch(HandlersA, "IndexError")
             ELSE LET price == Strip(Drop(page.text, i + 1), Whitespace)
                  IN  IF price = <<>> \/ price[1] \notin Digits
                      THEN Return(NA)
                      ELSE Return(price)

fetch_bookscouter_data(page) ==
    IF page.pre # "ok" THEN Catch(HandlersA, page.pre)
    ELSE LET parts == Split(page.text, "$")
         IN  IF Len(parts) < 2 THEN Catch(HandlersA, "IndexError")
             ELSE LET price == Strip(parts[2], Whitespace)
                  IN  IF price = <<>> \/ price[1] \notin Digits
                      THEN Return(NA)
                      ELSE Return(price)

\* variant: the profit text is returned without the digit guard of line 116
ParseProfit_unchecked(page) ==
    IF page.post # "ok" THEN Catch(HandlersB, page.post)
    ELSE Return(Strip(page.profit, {"$"}))

\* lines 110-119: the profit element
ParseProfit(page) ==
    IF page.post # "ok" THEN Catch(HandlersB, page.post)
    ELSE LET profit == Strip(page.profit, {"$"})
         IN  IF profit = <<>> \/ profit[1] \notin Digits
             THEN Return(NA)
             ELSE Return(profit)

\* variant: the profit element is read before the indicator is looked at
fetch_restricted_profit_first(page) ==
    IF page.pre # "ok" THEN Catch(HandlersB, page.pre)
    ELSE IF page.post # "ok" THEN Catch(HandlersB, page.post)
    ELSE IF page.probe = "ok" /\ Contains(page.indicator, Phrase)
         THEN Return(NotProfitable)
    ELSE ParseProfit(page)

fetch_restricted_inventory_data(page) ==
    IF page.pre # "ok" THEN Catch(HandlersB, page.pre)
    ELSE IF page.probe \in {"TimeoutException", "NoSuchElementException"}
         THEN ParseProfit(page)
    ELSE IF page.probe # "ok" THEN Catch(HandlersB, page.probe)
    ELSE IF Contains(page.indicator, Phrase) THEN Return(NotProfitable)
    ELSE ParseProfit(page)

\* what the two sites hold for one book, in the batch runs: a book neither
\* site knows, a book with a price that is not profitable, and a book with
\* a price and a profit
Books ==
    <<[A |-> [pre |-> "TimeoutException", text |-> <<>>],
       B |-> [pre |-> "ok", probe |-> "TimeoutException", indicator |-> <<>>,
              post |-> "ok", profit |-> <<"x">>]],
      [A |-> [pre |-> "ok", text |-> <<"$", "1">>],
       B |-> [pre |-> "ok", probe |-> "ok", indicator |-> Phrase,
              post |-> "ok", profit |-> <<>>]],
      [A |-> [pre |-> "ok", text |-> <<"x", "$", "1">>],
       B |-> [pre |-> "ok", probe |-> "ok", indicator |-> <<>>,
              post |-> "ok", profit |-> <<"$", "1">>]]>>

\* a state of the two sites: the books of isbns, a sequence, take the
\* entries of Books in turn, starting shift entries after the first
WebOf(isbns, shift) ==
    [b \in {isbns[k] : k \in 1..Len(isbns)} |->
        LET k == CHOOSE k \in 1..Len(isbns) : isbns[k] = b
        IN  Books[1 + ((k - 1 + shift) % Len(Books))]]

----------------------------------------------------------------------------
(* process_isbn, run by thread t: a pool worker (1..CONCURRENT_BROWSERS)   *)
(* under process_batch, the calling thread (0) under process_isbn_batch.   *)

\* a pool as large as the longest batch
Workers_PerItem == 1..MaxBatch

Workers == 1..CONCURRENT_BROWSERS

Threads == {0} \cup Workers

\* webdriver.Chrome(...) starts a browser of its own at every call: the
\* browser is named after the invocation that started it
SharedBrowser(i) == 1

NewBrowser(i) == i

\* the dict with a fixed row
Result_FixedRow(isbn, a, b, row_index) ==
    [ISBN |-> isbn, BookScouter |-> a, RestrictedInventory |-> b,
     RowIndex |-> 2]

Result(isbn, a, b, row_index) ==
    [ISBN |-> isbn, BookScouter |-> a, RestrictedInventory |-> b,
     RowIndex |-> row_index]

Log(i, event) == [calls EXCEPT ![i] = Append(@, event)]

\* line 134 and init_driver: webdriver.Chrome may raise; once the browser
\* runs, set_page_load_timeout may raise, and then nothing refers to the
\* browser any more
init_driver(t) ==
    /\ tpc[t] = "init"
    /\ LET i == tinv[t]
           b == NewBrowser(i)
       IN  \/ /\ tpc' = [tpc EXCEPT ![t] = "exc"]
              /\ texc' = [texc EXCEPT ![t] = "WebDriverException"]
              /\ UNCHANGED <<driver, open, orphans, calls, uses>>
           \/ /\ orphans' = orphans \cup {b}
              /\ calls' = Log(i, "orphan")
              /\ tpc' = [tpc EXCEPT ![t] = "exc"]
              /\ texc' = [texc EXCEPT ![t] = "WebDriverException"]
              /\ UNCHANGED <<driver, open, uses>>
           \/ /\ open' = open \cup {b}
              /\ driver' = [driver EXCEPT ![t] = b]
              /\ calls' = Log(i, "open")
              /\ uses' = uses \cup {<<b, i, "open">>}
              /\ tpc' = [tpc EXCEPT ![t] = "fetchA"]
              /\ UNCHANGED <<orphans, texc>>
    /\ UNCHANGED <<web, isbn_data, nsub, qhead, fut, mpc, mexc, results,
                   tinv, targ, tA, tret>>
    /\ UNCHANGED <<extractVars, storeVars, queueVars>>

\* line 136, with an extraction that came back 'N/A' tried once more
call_fetch_bookscouter_retry(t) ==
    /\ tpc[t] = "fetchA"
    /\ LET r == fetch_bookscouter_data(web[targ[t][1]].A)
           again == r.val = NA /\ Len(calls[tinv[t]]) < 2
       IN  /\ tA' = [tA EXCEPT ![t] = r.val]
           /\ tpc' = [tpc EXCEPT ![t] = IF again THEN "fetchA" ELSE "fetchB"]
    /\ calls' = Log(tinv[t], "A")
    /\ uses' = uses \cup {<<driver[t], tinv[t], "A">>}
    /\ UNCHANGED <<web, isbn_data, nsub, qhead, fut, mpc, mexc, results,
                   tinv, targ, driver, tret, texc, open, orphans>>
    /\ UNCHANGED <<extractVars, storeVars, queueVars>>

\* line 136; an exception leaving the call goes to the finally clause
call_fetch_bookscouter(t) ==
    /\ tpc[t] = "fetchA"
    /\ LET r == fetch_bookscouter_data(web[targ[t][1]].A)
       IN  IF r.kind = "return"
           THEN /\ tA' = [tA EXCEPT ![t] = r.val]
                /\ tpc' = [tpc EXCEPT ![t] = "fetchB"]
                /\ texc' = texc
           ELSE /\ texc' = [texc EXCEPT ![t] = r.val]
                /\ tpc' = [tpc EXCEPT ![t] = "finally"]
                /\ tA' = tA
    /\ calls' = Log(tinv[t], "A")
    /\ uses' = uses \cup {<<driver[t], tinv[t], "A">>}
    /\ UNCHANGED <<web, isbn_data, nsub, qhead, fut, mpc, mexc, results,
                   tinv, targ, driver, tret, open, orphans>>
    /\ UNCHANGED <<extractVars, storeVars, queueVars>>

\* lines 137-144: the second extraction, then the result dict is built
call_fetch_restricted(t) ==
    /\ tpc[t] = "fetchB"
    /\ LET r == fetch_restricted_inventory_data(web[targ[t][1]].B)
       IN  IF r.kind = "return"
           THEN /\ tret' = [tret EXCEPT ![t] =
                       <<Result(targ[t][1], tA[t], r.val, targ[t][2])>>]
                /\ texc' = texc
           ELSE /\ texc' = [texc EXCEPT ![t] = r.val]
                /\ tret' = tret
    /\ tpc' = [tpc EXCEPT ![t] = "finally"]
    /\ calls' = Log(tinv[t], "B")
    /\ uses' = uses \cup {<<driver[t], tinv[t], "B">>}
    /\ UNCHANGED <<web, isbn_data, nsub, qhead, fut, mpc, mexc, results,
                   tinv, targ, driver, tA, open, orphans>>
    /\ UNCHANGED <<extractVars, storeVars, queueVars>>

\* lines 145-146: driver.quit(), then the return or the pending exception
finally_quit(t) ==
    /\ tpc[t] = "finally"
    /\ open' = open \ {driver[t]}
    /\ calls' = Log(tinv[t], "quit")
    /\ uses' = uses \cup {<<driver[t], tinv[t], "quit">>}
    /\ tpc' = [tpc EXCEPT ![t] = IF texc[t] = "none" THEN "ret" ELSE "exc"]
    /\ UNCHANGED <<web, isbn_data, nsub, qhead, fut, mpc, mexc, results,
                   tinv, targ, driver, tA, tret, texc, orphans>>
    /\ UNCHANGED <<extractVars, storeVars, queueVars>>

process_isbn(t) ==
    \/ init_driver(t)
    \/ call_fetch_bookscouter(t)
    \/ call_fetch_restricted(t)
    \/ finally_quit(t)

----------------------------------------------------------------------------
(* process_batch: ThreadPoolExecutor(max_workers=CONCURRENT_BROWSERS),     *)
(* executor.map, list(...), and the exit of the with block.                *)

Future(state, res, exc) == [state |-> state, res |-> res, exc |-> exc]

\* executor.map submits every item, in order, before any result is read
submit ==
    /\ mpc = "map"
    /\ nsub < Len(isbn_data)
    /\ nsub' = nsub + 1
    /\ fut' = Append(fut, Future("pending", <<>>, "none"))
    /\ UNCHANGED <<web, isbn_data, qhead, mpc, mexc, results, tpc, tinv, targ,
                   driver, tA, tret, texc, open, orphans, calls, uses>>
    /\ UNCHANGED <<extractVars, storeVars, queueVars>>

\* a free worker takes the oldest queued work item; a cancelled one is
\* dropped, any other runs process_isbn(x[0], x[1]).  The workers are
\* interchangeable: the lowest free one stands for whichever takes it
worker_take(w) ==
    /\ tpc[w] = "idle"
    /\ \A v \in 1..(w - 1) : tpc[v] # "idle"
    /\ qhead <= nsub
    /\ qhead' = qhead + 1
    /\ IF fut[qhead].state = "cancelled"
       THEN UNCHANGED <<fut, tpc, tinv, targ>>
       ELSE /\ fut' = [fut EXCEPT ![qhead].state = "running"]
            /\ tpc' = [tpc EXCEPT ![w] = "init"]
            /\ tinv' = [tinv EXCEPT ![w] = qhead]
            /\ targ' = [targ EXCEPT ![w] = isbn_data[qhead]]
    /\ UNCHANGED <<web, isbn_data, nsub, mpc, mexc, results, driver, tA, tret,
                   texc, open, orphans, calls, uses>>
    /\ UNCHANGED <<extractVars, storeVars, queueVars>>

\* the work item ends: the future gets the result or the exception, and
\* the worker is free again
worker_done(w) ==
    /\ tpc[w] \in {"ret", "exc"}
    /\ fut' = [fut EXCEPT ![tinv[w]] =
                 IF tpc[w] = "ret"
                 THEN Future("done", tret[w], "none")
                 ELSE Future("failed", <<>>, texc[w])]
    /\ tpc' = [tpc EXCEPT ![w] = "idle"]
    /\ tinv' = [tinv EXCEPT ![w] = 0]
    /\ targ' = [targ EXCEPT ![w] = <<>>]
    /\ driver' = [driver EXCEPT ![w] = 0]
    /\ tA' = [tA EXCEPT ![w] = <<>>]
    /\ tret' = [tret EXCEPT ![w] = <<>>]
    /\ texc' = [texc EXCEPT ![w] = "none"]
    /\ UNCHANGED <<web, isbn_data, nsub, qhead, mpc, mexc, results, open,
                   orphans, calls, uses>>
    /\ UNCHANGED <<extractVars, storeVars, queueVars>>

\* variant: the results are read as the futures complete (as_completed)
collect_as_completed ==
    /\ mpc = "map"
    /\ nsub = Len(isbn_data)
    /\ IF Len(results) = Len(isbn_data)
       THEN /\ mpc' = "shutdown"
            /\ UNCHANGED <<results, mexc, fut>>
       ELSE \/ \E i \in 1..Len(fut) :
                   /\ fut[i].state = "done"
                   /\ results' = results \o fut[i].res
                   /\ fut' = [fut EXCEPT ![i] = Future("yielded", <<>>, "none")]
                   /\ UNCHANGED <<mpc, mexc>>
            \/ \E i \in 1..Len(fut) :
                   /\ fut[i].state = "failed"
                   /\ mexc' = fut[i].exc
                   /\ fut' = [j \in 1..Len(fut) |->
                                IF fut[j].state = "pending"
                                THEN Future("cancelled", <<>>, "none")
                                ELSE fut[j]]
                   /\ mpc' = "shutdown"
                   /\ UNCHANGED results
    /\ UNCHANGED <<web, isbn_data, nsub, qhead, tpc, tinv, targ, driver, tA,
                   tret, texc, open, orphans, calls, uses>>
    /\ UNCHANGED <<extractVars, storeVars, queueVars>>

\* list(...) reads the futures in input order, waiting for each; the first
\* failed one raises, and the iterator cancels the futures still pending
collect ==
    /\ mpc = "map"
    /\ nsub = Len(isbn_data)
    /\ LET i == Len(results) + 1
       IN  IF i > Len(isbn_data)
           THEN /\ mpc' = "shutdown"
                /\ UNCHANGED <<results, mexc, fut>>
           ELSE \/ /\ fut[i].state = "done"
                   /\ results' = results \o fut[i].res
                   /\ UNCHANGED <<mpc, mexc, fut>>
                \/ /\ fut[i].state = "failed"
                   /\ mexc' = fut[i].exc
                   /\ fut' = [j \in 1..Len(fut) |->
                                IF fut[j].state = "pending"
                                THEN Future("cancelled", <<>>, "none")
                                ELSE fut[j]]
                   /\ mpc' = "shutdown"
                   /\ UNCHANGED results
    /\ UNCHANGED <<web, isbn_data, nsub, qhead, tpc, tinv, targ, driver, tA,
                   tret, texc, open, orphans, calls, uses>>
    /\ UNCHANGED <<extractVars, storeVars, queueVars>>

\* leaving the with block is shutdown(wait=True): the workers drain the
\* queue and are joined; then process_batch returns the list, or the
\* exception goes on to the caller and the list built so far is dropped
shutdown ==
    /\ mpc = "shutdown"
    /\ qhead > nsub
    /\ \A w \in Workers : tpc[w] = "idle"
    /\ IF mexc = "none"
       THEN /\ mpc' = "returned"
            /\ results' = results
       ELSE /\ mpc' = "raised"
            /\ results' = <<>>
    /\ UNCHANGED <<web, isbn_data, nsub, qhead, fut, mexc, tpc, tinv, targ,
                   driver, tA, tret, texc, open, orphans, calls, uses>>
    /\ UNCHANGED <<extractVars, storeVars, queueVars>>

process_batch ==
    \/ submit
    \/ collect
    \/ shutdown

\* the batches: item i has an ISBN (two items may carry the same one) and a
\* row of its own; rows ascend or descend
ISBNs == <<"111", "222">>

RowOrders == {"ascending", "descending"}

Batch(n, order) ==
    [i \in 1..n |->
        <<ISBNs[1 + (i % 2)],
          IF order = "ascending" THEN i + 1 ELSE n + 2 - i>>]

Batches == {Batch(n, order) : n \in 0..MaxBatch, order \in RowOrders}

IdleThreads ==
    /\ tpc = [t \in Threads |-> "idle"]
    /\ tinv = [t \in Threads |-> 0]
    /\ targ = [t \in Threads |-> <<>>]
    /\ driver = [t \in Threads |-> 0]
    /\ tA = [t \in Threads |-> <<>>]
    /\ tret = [t \in Threads |-> <<>>]
    /\ texc = [t \in Threads |-> "none"]
    /\ open = {}
    /\ orphans = {}
    /\ uses = {}

NoExtraction ==
    /\ xsite = "A"
    /\ xpage = [pre |-> "ok", text |-> <<>>]
    /\ xout = <<>>

EmptyStore ==
    /\ store = {}
    /\ clock = 1
    /\ marks = <<>>
    /\ got = <<>>

NoMessage ==
    /\ data = <<>>
    /\ isbn_batch = <<>>
    /\ sheet = <<>>
    /\ spos = <<1, 0>>
    /\ acked = FALSE

NoRequest ==
    /\ hpc = "none"
    /\ pull = "running"
    /\ cancelled = FALSE
    /\ response = 0

NoBatch ==
    /\ isbn_data = <<>>
    /\ nsub = 0
    /\ qhead = 1
    /\ fut = <<>>

Init ==
    /\ isbn_data \in Batches
    /\ web = WebOf(ISBNs, 0)
    /\ nsub = 0
    /\ qhead = 1
    /\ fut = <<>>
    /\ mpc = "map"
    /\ mexc = "none"
    /\ results = <<>>
    /\ calls = [i \in 1..Len(isbn_data) |-> <<>>]
    /\ IdleThreads
    /\ NoExtraction
    /\ EmptyStore
    /\ NoMessage
    /\ NoRequest

Next ==
    \/ process_batch
    \/ \E w \in Workers : worker_take(w) \/ worker_done(w) \/ process_isbn(w)

Spec == Init /\ [][Next]_vars

----------------------------------------------------------------------------
(* Properties of process_batch and process_isbn, checked under Spec *)

BatchOver == mpc \in {"returned", "raised"}

InBody(t) == tpc[t] \in {"fetchA", "fetchB", "finally"}

Count(seq, S) == Cardinality({k \in 1..Len(seq) : seq[k] \in S})

\* C1: during a process_batch run, the sessions that init_driver returned
\* and that were not yet quit are never more than CONCURRENT_BROWSERS
C1_SessionBound == Cardinality(open) <= CONCURRENT_BROWSERS

\* the pool is full while an item of a batch longer than the pool waits
C1_PoolSaturated ==
    /\ Cardinality(open) = CONCURRENT_BROWSERS
    /\ Len(isbn_data) > CONCURRENT_BROWSERS
    /\ qhead <= nsub

\* C2: when init_driver fails for exactly one item of a three-item batch,
\* process_batch ends with the results of the other two items in the
\* caller's hands
C2_FailureIsolation ==
    (/\ BatchOver
     /\ Len(isbn_data) = 3
     /\ Cardinality({i \in 1..Len(fut) : fut[i].state = "failed"}) = 1)
    => \A i \in 1..3 :
          calls[i] = <<"open", "A", "B", "quit">>
          => \E j \in 1..Len(results) :
                /\ results[j].ISBN = isbn_data[i][1]
                /\ results[j].RowIndex = isbn_data[i][2]

\* C3: a process_isbn invocation starts at most one browser, one it started
\* is closed when the invocation has returned or raised, and no browser is
\* left when process_batch has returned or raised
C3_SessionClosedOnExit ==
    /\ \A i \in 1..Len(isbn_data) : Count(calls[i], {"open", "orphan"}) <= 1
    /\ \A t \in Threads :
          tpc[t] \in {"ret", "exc"}
          => NewBrowser(tinv[t]) \notin (open \cup orphans)
    /\ BatchOver => (open \cup orphans) = {}

DistinctRows ==
    \A i, j \in 1..Len(isbn_data) :
        isbn_data[i][2] = isbn_data[j][2] => i = j

\* C4: a batch of N items with pairwise distinct rows: the list process_batch
\* returns has N results, each input row is the RowIndex of exactly one of
\* them, that one carries the ISBN paired with the row, and no result has
\* a row that is not in the input
C4_BatchDisjointness ==
    (mpc = "returned" /\ DistinctRows)
    => /\ Len(results) = Len(isbn_data)
       /\ \A i \in 1..Len(isbn_data) :
             LET hits == {j \in 1..Len(results) :
                             results[j].RowIndex = isbn_data[i][2]}
             IN  /\ Cardinality(hits) = 1
                 /\ \A j \in hits : results[j].ISBN = isbn_data[i][1]
       /\ \A j \in 1..Len(results) :
             \E i \in 1..Len(isbn_data) :
                results[j].RowIndex = isbn_data[i][2]

\* a batch longer than the pool, two of its items with the same ISBN,
\* has been returned
C4_FullBatchReturned ==
    /\ mpc = "returned"
    /\ Len(results) > CONCURRENT_BROWSERS
    /\ \E i, j \in 1..Len(isbn_data) :
          i # j /\ isbn_data[i][1] = isbn_data[j][1]

Sessions == {u[1] : u \in uses}

\* C6: every live session is held by exactly one running process_isbn, the
\* one that opened it; whatever is done to a session is done by the
\* invocation that opened it, and a session is opened once
C6_SessionExclusive ==
    /\ \A s \in open :
          /\ Cardinality({t \in Threads : InBody(t) /\ driver[t] = s}) = 1
          /\ \A t \in Threads :
                (InBody(t) /\ driver[t] = s) => <<s, tinv[t], "open">> \in uses
    /\ \A s \in Sessions :
          /\ Cardinality({u \in uses : u[1] = s /\ u[3] = "open"}) = 1
          /\ \A u, v \in uses : (u[1] = s /\ v[1] = s) => u[2] = v[2]

\* two sessions are live and in use while an earlier one is already gone
C6_SessionsSideBySide ==
    /\ \E s1, s2 \in open :
          /\ s1 # s2
          /\ \E u, v \in uses : u[1] = s1 /\ v[1] = s2 /\ u[3] = "B" /\ v[3] = "A"
    /\ \E u \in uses : u[3] = "quit"

\* C7: in one process_isbn, fetch_bookscouter_data is over before
\* fetch_restricted_inventory_data starts, each is called once (never again
\* after 'N/A'), both on the session the invocation opened
C7_SiteOrder ==
    \A i \in 1..Len(isbn_data) :
        LET fetches == SelectSeq(calls[i], LAMBDA e : e \in {"A", "B"})
        IN  /\ fetches \in {<<>>, <<"A">>, <<"A", "B">>}
            /\ Count(calls[i], {"quit"}) = 1 => fetches = <<"A", "B">>
            /\ \A u, v \in uses : (u[2] = i /\ v[2] = i) => u[1] = v[1]

\* an item whose first extraction came back 'N/A' went on to the second
C7_SentinelNotRetried ==
    \E i \in 1..Len(isbn_data) :
        /\ calls[i] = <<"open", "A", "B", "quit">>
        /\ \E j \in 1..Len(results) :
              /\ results[j].RowIndex = isbn_data[i][2]
              /\ results[j].BookScouter = NA

----------------------------------------------------------------------------
(* One extraction on its own: any page of either site *)

extract ==
    /\ xout = <<>>
    /\ xout' = <<IF xsite = "A"
                 THEN fetch_bookscouter_data(xpage)
                 ELSE fetch_restricted_inventory_data(xpage)>>
    /\ UNCHANGED <<web, isbn_data, nsub, qhead, fut, mpc, mexc, results, tpc,
                   tinv, targ, driver, tA, tret, texc, open, orphans, calls,
                   uses, xsite, xpage, storeVars, queueVars>>

InitExtract ==
    /\ \/ xsite = "A" /\ xpage \in PagesA
       \/ xsite = "B" /\ xpage \in PagesB
    /\ xout = <<>>
    /\ web = WebOf(ISBNs, 0)
    /\ NoBatch
    /\ mpc = "extract"
    /\ mexc = "none"
    /\ results = <<>>
    /\ calls = <<>>
    /\ IdleThreads
    /\ EmptyStore
    /\ NoMessage
    /\ NoRequest

NextExtract == extract

SpecExtract == InitExtract /\ [][NextExtract]_vars

\* the profit element of site B is reached: the indicator did not carry
\* the phrase
ProfitReached(page) ==
    /\ page.pre = "ok"
    /\ page.probe \in {"ok", "TimeoutException", "NoSuchElementException"}
    /\ ~(page.probe = "ok" /\ Contains(page.indicator, Phrase))

\* something raised inside the extraction: a selenium call, or the indexing
\* of a text that has no '$' to split at (site A)
RaisedInside(site, page) ==
    \/ page.pre # "ok"
    \/ site = "A" /\ IndexOf(page.text, "$", 1) = 0
    \/ site = "B" /\ page.probe # "ok"
    \/ site = "B" /\ ProfitReached(page) /\ page.post # "ok"

\* the same, but for a timeout or a missing element while site B's
\* indicator is probed
RaisedOutsideProbe(site, page) ==
    \/ page.pre # "ok"
    \/ site = "A" /\ IndexOf(page.text, "$", 1) = 0
    \/ site = "B" /\ page.probe \in
                        {"StaleElementReferenceException", "WebDriverException"}
    \/ site = "B" /\ ProfitReached(page) /\ page.post # "ok"

\* C5 as claimed: no exception leaves fetch_bookscouter_data or
\* fetch_restricted_inventory_data, and whatever raises inside, at any
\* step, the function returns 'N/A'
C5_EveryFailureGivesNA ==
    xout # <<>>
    => /\ xout[1].kind = "return"
       /\ RaisedInside(xsite, xpage) => xout[1].val = NA

\* C5, amended: no exception leaves either function; whatever raises inside
\* makes the function return 'N/A', except a timeout or a missing element
\* while site B's indicator is probed, after which the extraction goes on
\* to the profit element
C5_NoExceptionEscapes ==
    xout # <<>>
    => /\ xout[1].kind = "return"
       /\ RaisedOutsideProbe(xsite, xpage) => xout[1].val = NA
       /\ (/\ xsite = "B"
           /\ ProfitReached(xpage)
           /\ xpage.probe # "ok"
           /\ xpage.post = "ok")
          => xout[1] = ParseProfit(xpage)

\* a stale element on site A, which no except clause names, gave 'N/A'
C5_StaleElementAbsorbed ==
    /\ xout = <<Return(NA)>>
    /\ xsite = "A"
    /\ xpage.pre = "StaleElementReferenceException"

----------------------------------------------------------------------------
(* The status store: collection isbn_processing_status, one document per   *)
(* document id.                                                            *)

Statuses == {"processed", "failed"}

Document(isbn, status, ts) == [id |-> isbn, status |-> status, timestamp |-> ts]

\* a write that adds a document beside the one already there
doc_add(st, isbn, status, ts) == st \cup {Document(isbn, status, ts)}

\* doc_ref.set(...): the document with this id is replaced as a whole
doc_set(st, isbn, status, ts) ==
    {d \in st : d.id # isbn} \cup {Document(isbn, status, ts)}

\* doc_ref.get(), then doc.to_dict() if doc.exists else None: <<>> is None
doc_get(st, isbn) ==
    LET docs == {d \in st : d.id = isbn}
    IN  IF docs = {} THEN <<>>
        ELSE LET d == CHOOSE d \in docs : TRUE
             IN  <<[status |-> d.status, timestamp |-> d.timestamp]>>

\* firestore.SERVER_TIMESTAMP: the server's time when it commits the write,
\* never earlier than that of the write before
ServerTimes == {ts \in {clock, clock + 1} : ts <= MaxClock}

\* lines 176-182; what it does to the store
update_processing_status(isbn, status) ==
    \E ts \in ServerTimes :
        /\ store' = doc_set(store, isbn, status, ts)
        /\ clock' = ts
        /\ marks' = Append(marks, Document(isbn, status, ts))

\* lines 184-188
check_processing_status(isbn) == doc_get(store, isbn)

StatusIsbns == {"1", "2"}

\* some caller marks an ISBN
call_update_processing_status ==
    /\ mpc = "status"
    /\ Len(marks) < MaxMarks
    /\ \E isbn \in StatusIsbns, status \in Statuses :
          update_processing_status(isbn, status)
    /\ got' = <<>>
    /\ UNCHANGED <<web, isbn_data, nsub, qhead, fut, mpc, mexc, results, tpc,
                   tinv, targ, driver, tA, tret, texc, open, orphans, calls,
                   uses, extractVars, queueVars>>

\* some caller asks for the status of an ISBN
call_check_processing_status ==
    /\ mpc = "status"
    /\ \E isbn \in StatusIsbns :
          got' = <<[isbn |-> isbn, ret |-> check_processing_status(isbn)]>>
    /\ UNCHANGED <<web, isbn_data, nsub, qhead, fut, mpc, mexc, results, tpc,
                   tinv, targ, driver, tA, tret, texc, open, orphans, calls,
                   uses, extractVars, store, clock, marks, queueVars>>

InitStatus ==
    /\ EmptyStore
    /\ web = WebOf(ISBNs, 0)
    /\ NoBatch
    /\ mpc = "status"
    /\ mexc = "none"
    /\ results = <<>>
    /\ calls = <<>>
    /\ IdleThreads
    /\ NoExtraction
    /\ NoMessage
    /\ NoRequest

NextStatus ==
    \/ call_update_processing_status
    \/ call_check_processing_status

SpecStatus == InitStatus /\ [][NextStatus]_vars

\* the status and timestamp of the latest write for isbn, <<>> without one
LatestMark(isbn) ==
    LET ks == {k \in 1..Len(marks) : marks[k].id = isbn}
    IN  IF ks = {} THEN <<>>
        ELSE LET k == CHOOSE k \in ks : \A l \in ks : l <= k
             IN  <<[status |-> marks[k].status,
                    timestamp |-> marks[k].timestamp]>>

\* C9: after any sequence of update_processing_status calls the store holds
\* at most one record per ISBN, with the status and timestamp of the latest
\* call for it (so marking twice with the same arguments leaves one record,
\* with the later, never smaller, timestamp), and check_processing_status
\* returns that record, or None for an ISBN never marked
C9_LastWriteWins ==
    /\ \A isbn \in StatusIsbns :
          LET docs == {d \in store : d.id = isbn}
          IN  /\ Cardinality(docs) <= 1
              /\ {[status |-> d.status, timestamp |-> d.timestamp] : d \in docs}
                    = {LatestMark(isbn)[k] : k \in 1..Len(LatestMark(isbn))}
    /\ \A k, l \in 1..Len(marks) :
          k < l => marks[k].timestamp <= marks[l].timestamp
    /\ got # <<>> => got[1].ret = LatestMark(got[1].isbn)

\* an ISBN was marked twice with the same status, the second time later, and
\* check_processing_status returned the second; the other ISBN was never marked
C9_MarkedTwice ==
    /\ Len(marks) = 2
    /\ marks[1].id = marks[2].id
    /\ marks[1].status = marks[2].status
    /\ marks[1].timestamp < marks[2].timestamp
    /\ got = <<[isbn |-> marks[2].id,
                ret |-> <<[status |-> marks[2].status,
                           timestamp |-> marks[2].timestamp]>>]>>
    /\ \E isbn \in StatusIsbns : check_processing_status(isbn) = <<>>

----------------------------------------------------------------------------
(* The queue-triggered path: process_pubsub_message, process_isbn_batch    *)
(* and update_google_sheet, run by the calling thread (0).                 *)

\* sep.join(parts): what the publisher of the payload does
RECURSIVE Join(_, _)
Join(parts, sep) ==
    IF parts = <<>> THEN <<>>
    ELSE IF Len(parts) = 1 THEN parts[1]
    ELSE parts[1] \o <<sep>> \o Join(Tail(parts), sep)

\* the elements of a payload: three ISBNs, each followed by one digit, and
\* elements that are shorter or longer
Elements ==
    {<<"1", "2">>, <<"2", "3">>, <<"3", "2">>, <<"3", "1">>, <<"1">>,
     <<"1", "2", "3">>}

Payloads == {Join(es, ",") : es \in SeqsUpTo(Elements, MaxMsg)}

QueueIsbns == <<"1", "2", "3">>

\* int(row), as the sheet client reads a row given as a string
RowNumber(row_index) ==
    ("0" :> 0 @@ "1" :> 1 @@ "2" :> 2 @@ "3" :> 3 @@ "4" :> 4 @@ "5" :> 5
       @@ "6" :> 6 @@ "7" :> 7 @@ "8" :> 8 @@ "9" :> 9)[row_index]

SheetRows == {RowNumber(e[2]) : e \in {e \in Elements : Len(e) >= 2}}

SheetCols == (ColE - 1)..(ColF + 1)

Old == <<"o", "l", "d">>

InitialSheet == [cell \in SheetRows \X SheetCols |-> Old]

\* a write one column too far to the right
update_cell_next_col(sh, row, col, value) ==
    [sh EXCEPT ![<<RowNumber(row), col + 1>>] = value]

\* sheet.update_cell(row, col, value)
update_cell(sh, row, col, value) ==
    [sh EXCEPT ![<<RowNumber(row), col>>] = value]

\* the calling thread leaves process_isbn
LeaveCall ==
    /\ tpc' = [tpc EXCEPT ![0] = "idle"]
    /\ tinv' = [tinv EXCEPT ![0] = 0]
    /\ targ' = [targ EXCEPT ![0] = <<>>]
    /\ driver' = [driver EXCEPT ![0] = 0]
    /\ tA' = [tA EXCEPT ![0] = <<>>]
    /\ tret' = [tret EXCEPT ![0] = <<>>]
    /\ texc' = [texc EXCEPT ![0] = "none"]

\* an exception leaves process_pubsub_message: its locals are gone, and
\* neither the sheet update nor message.ack() that would follow is run
Propagate(e) ==
    /\ mexc' = e
    /\ mpc' = "raised"
    /\ results' = <<>>

\* line 160: message.data.decode('utf-8').split(',')
split_message ==
    /\ mpc = "message"
    /\ isbn_batch' = Split(data, ",")
    /\ calls' = [i \in 1..Len(isbn_batch') |-> <<>>]
    /\ mpc' = "loop"
    /\ UNCHANGED <<web, isbn_data, nsub, qhead, fut, mexc, results, tpc, tinv,
                   targ, driver, tA, tret, texc, open, orphans, uses,
                   extractVars, storeVars, data, sheet, spos, acked,
                   httpVars>>

\* variant: an element is padded and cut to two components before it is
\* unpacked
next_item_padded ==
    /\ mpc = "loop"
    /\ LET k == Len(results) + 1
       IN  IF k > Len(isbn_batch)
           THEN /\ mpc' = "sheet"
                /\ spos' = <<1, ColE>>
                /\ UNCHANGED <<mexc, results, tpc, tinv, targ>>
           ELSE /\ mpc' = "call"
                /\ tpc' = [tpc EXCEPT ![0] = "init"]
                /\ tinv' = [tinv EXCEPT ![0] = k]
                /\ targ' = [targ EXCEPT ![0] =
                               SubSeq(isbn_batch[k] \o <<"1", "1">>, 1, 2)]
                /\ UNCHANGED <<mexc, results, spos>>
    /\ UNCHANGED <<web, isbn_data, nsub, qhead, fut, driver, tA, tret, texc,
                   open, orphans, calls, uses, extractVars, storeVars, data,
                   isbn_batch, sheet, acked, httpVars>>

\* lines 192-193: the next element is unpacked into isbn, row_index, which
\* raises ValueError unless it has exactly two components, and process_isbn
\* is called; after the last element the list is returned (line 196)
next_item ==
    /\ mpc = "loop"
    /\ LET k == Len(results) + 1
       IN  IF k > Len(isbn_batch)
           THEN /\ mpc' = "sheet"
                /\ spos' = <<1, ColE>>
                /\ UNCHANGED <<mexc, results, tpc, tinv, targ>>
           ELSE IF Len(isbn_batch[k]) # 2
           THEN /\ Propagate("ValueError")
                /\ UNCHANGED <<spos, tpc, tinv, targ>>
           ELSE /\ mpc' = "call"
                /\ tpc' = [tpc EXCEPT ![0] = "init"]
                /\ tinv' = [tinv EXCEPT ![0] = k]
                /\ targ' = [targ EXCEPT ![0] =
                               <<isbn_batch[k][1], isbn_batch[k][2]>>]
                /\ UNCHANGED <<mexc, results, spos>>
    /\ UNCHANGED <<web, isbn_data, nsub, qhead, fut, driver, tA, tret, texc,
                   open, orphans, calls, uses, extractVars, storeVars, data,
                   isbn_batch, sheet, acked, httpVars>>

\* variant: the item whose process_isbn raised is marked 'failed' before
\* the exception goes on
append_result_mark_failed ==
    /\ mpc = "call"
    /\ \/ /\ tpc[0] = "ret"
          /\ results' = results \o tret[0]
          /\ mpc' = "mark"
          /\ mexc' = mexc
          /\ UNCHANGED <<store, clock, marks>>
       \/ /\ tpc[0] = "exc"
          /\ Propagate(texc[0])
          /\ update_processing_status(targ[0][1], "failed")
    /\ LeaveCall
    /\ UNCHANGED <<web, isbn_data, nsub, qhead, fut, open, orphans, calls,
                   uses, extractVars, got, queueVars>>

\* lines 193-194: process_isbn returned and its result is appended, or it
\* raised and the exception goes on
append_result ==
    /\ mpc = "call"
    /\ \/ /\ tpc[0] = "ret"
          /\ results' = results \o tret[0]
          /\ mpc' = "mark"
          /\ mexc' = mexc
       \/ /\ tpc[0] = "exc"
          /\ Propagate(texc[0])
    /\ LeaveCall
    /\ UNCHANGED <<web, isbn_data, nsub, qhead, fut, open, orphans, calls,
                   uses, extractVars, storeVars, queueVars>>

\* the status write left out
mark_skipped ==
    /\ mpc = "mark"
    /\ mpc' = "loop"
    /\ UNCHANGED <<web, isbn_data, nsub, qhead, fut, mexc, results, tpc, tinv,
                   targ, driver, tA, tret, texc, open, orphans, calls, uses,
                   extractVars, storeVars, queueVars>>

\* line 195: update_processing_status(isbn, 'processed'); the client or the
\* write may raise
mark_processed ==
    /\ mpc = "mark"
    /\ \/ /\ update_processing_status(isbn_batch[Len(results)][1], "processed")
          /\ mpc' = "loop"
          /\ UNCHANGED <<mexc, results>>
       \/ /\ Propagate("GoogleAPICallError")
          /\ UNCHANGED <<store, clock, marks>>
    /\ UNCHANGED <<web, isbn_data, nsub, qhead, fut, tpc, tinv, targ, driver,
                   tA, tret, texc, open, orphans, calls, uses, extractVars,
                   got, queueVars>>

\* variant: update_cell wrapped in  try: ... except Exception: pass
write_cell_errors_passed ==
    /\ mpc = "sheet"
    /\ LET j == spos[1]
           col == spos[2]
       IN  IF j > Len(results)
           THEN /\ mpc' = "ack"
                /\ UNCHANGED <<sheet, spos>>
           ELSE /\ \/ sheet' = update_cell(sheet, results[j].RowIndex, col,
                                  IF col = ColE
                                  THEN results[j].BookScouter
                                  ELSE results[j].RestrictedInventory)
                   \/ UNCHANGED sheet
                /\ spos' = IF col = ColE THEN <<j, ColF>>
                           ELSE <<j + 1, ColE>>
                /\ UNCHANGED mpc
    /\ UNCHANGED <<web, isbn_data, nsub, qhead, fut, mexc, results, tpc, tinv,
                   targ, driver, tA, tret, texc, open, orphans, calls, uses,
                   extractVars, storeVars, data, isbn_batch, acked,
                   httpVars>>

\* lines 154-157: the next update_cell of update_google_sheet, which may
\* raise; after the last one the function returns
write_cell ==
    /\ mpc = "sheet"
    /\ LET j == spos[1]
           col == spos[2]
       IN  IF j > Len(results)
           THEN /\ mpc' = "ack"
                /\ UNCHANGED <<mexc, results, sheet, spos>>
           ELSE \/ /\ sheet' = update_cell(sheet, results[j].RowIndex, col,
                                  IF col = ColE
                                  THEN results[j].BookScouter
                                  ELSE results[j].RestrictedInventory)
                   /\ spos' = IF col = ColE THEN <<j, ColF>>
                              ELSE <<j + 1, ColE>>
                   /\ UNCHANGED <<mpc, mexc, results>>
                \/ /\ Propagate("APIError")
                   /\ UNCHANGED <<sheet, spos>>
    /\ UNCHANGED <<web, isbn_data, nsub, qhead, fut, tpc, tinv, targ, driver,
                   tA, tret, texc, open, orphans, calls, uses, extractVars,
                   storeVars, data, isbn_batch, acked, httpVars>>

\* variant: message.ack() called before update_google_sheet
ack_before_sheet ==
    /\ mpc = "sheet"
    /\ spos = <<1, ColE>>
    /\ acked' = TRUE
    /\ mpc' = "done"
    /\ UNCHANGED <<web, isbn_data, nsub, qhead, fut, mexc, results, tpc, tinv,
                   targ, driver, tA, tret, texc, open, orphans, calls, uses,
                   extractVars, storeVars, data, isbn_batch, sheet, spos,
                   httpVars>>

\* line 163
ack ==
    /\ mpc = "ack"
    /\ acked' = TRUE
    /\ mpc' = "done"
    /\ UNCHANGED <<web, isbn_data, nsub, qhead, fut, mexc, results, tpc, tinv,
                   targ, driver, tA, tret, texc, open, orphans, calls, uses,
                   extractVars, storeVars, data, isbn_batch, sheet, spos,
                   httpVars>>

process_isbn_batch ==
    \/ next_item
    \/ append_result
    \/ mark_processed
    \/ process_isbn(0)

process_pubsub_message ==
    \/ split_message
    \/ process_isbn_batch
    \/ write_cell
    \/ ack

InitQueue ==
    /\ data \in Payloads
    /\ isbn_batch = <<>>
    /\ sheet = InitialSheet
    /\ spos = <<1, ColE>>
    /\ acked = FALSE
    /\ web \in {WebOf(QueueIsbns, shift) : shift \in 0..1}
    /\ NoBatch
    /\ mpc = "message"
    /\ mexc = "none"
    /\ results = <<>>
    /\ calls = <<>>
    /\ IdleThreads
    /\ NoExtraction
    /\ EmptyStore
    /\ NoRequest

NextQueue == process_pubsub_message

SpecQueue == InitQueue /\ [][NextQueue]_vars

----------------------------------------------------------------------------
(* Properties of the queue-triggered path, checked under SpecQueue *)

BatchFinished == mpc \in {"sheet", "ack", "done"}

\* C8: in the loop of process_isbn_batch every item that has a result is
\* marked 'processed' exactly once, the k-th write being for the k-th item,
\* after its result was appended and before the session of the next item
\* is opened; when the loop has finished the store holds a processed record
\* for every ISBN of the batch
C8_MarkedOncePerItem ==
    LET n == Len(marks)
    IN  /\ n <= Len(isbn_batch)
        /\ \A k \in 1..n :
              /\ Len(isbn_batch[k]) = 2
              /\ marks[k].id = isbn_batch[k][1]
              /\ marks[k].status = "processed"
        /\ mpc = "call" => (Len(results) = n /\ tinv[0] = n + 1)
        /\ mpc = "mark" => Len(results) = n + 1
        /\ (mpc = "loop" \/ BatchFinished) => Len(results) = n
        /\ \A i \in 1..Len(calls) : calls[i] # <<>> => i <= n + 1
        /\ \A i \in 1..Len(calls) :
              (calls[i] # <<>> /\ i = n + 1) => mpc \in {"call", "mark", "raised"}
        /\ BatchFinished
           => /\ n = Len(isbn_batch)
              /\ \A i \in 1..Len(isbn_batch) :
                    \E d \in store :
                       d.id = isbn_batch[i][1] /\ d.status = "processed"

\* a message of three items, two of them with the same ISBN, was processed
\* to the end
C8_BatchMarked ==
    /\ mpc = "done"
    /\ Len(marks) = 3
    /\ Cardinality(store) = 2

\* update_google_sheet as a function of the sheet and the results
RECURSIVE update_google_sheet(_, _)
update_google_sheet(sh, rs) ==
    IF rs = <<>> THEN sh
    ELSE LET r == rs[1]
             e == update_cell(sh, r.RowIndex, ColE, r.BookScouter)
             f == update_cell(e, r.RowIndex, ColF, r.RestrictedInventory)
         IN  update_google_sheet(f, Tail(rs))

Orders(n) == {p \in [1..n -> 1..n] : \A i, j \in 1..n : p[i] = p[j] => i = j}

DistinctResultRows ==
    \A i, j \in 1..Len(results) :
        results[i].RowIndex = results[j].RowIndex => i = j

\* C10: results with pairwise distinct rows: when update_google_sheet is
\* over, cell (RowIndex, 5) holds the result's BookScouter value and cell
\* (RowIndex, 6) its RestrictedInventory value, every other cell is as it
\* was, and applying the results in any other order gives the same sheet
C10_SheetReconciled ==
    (mpc \in {"ack", "done"} /\ DistinctResultRows)
    => /\ \A j \in 1..Len(results) :
             LET row == RowNumber(results[j].RowIndex)
             IN  /\ sheet[<<row, ColE>>] = results[j].BookScouter
                 /\ sheet[<<row, ColF>>] = results[j].RestrictedInventory
       /\ \A cell \in DOMAIN sheet :
             (\A j \in 1..Len(results) :
                 \/ cell[1] # RowNumber(results[j].RowIndex)
                 \/ cell[2] \notin {ColE, ColF})
             => sheet[cell] = InitialSheet[cell]
       /\ \A p \in Orders(Len(results)) :
             update_google_sheet(InitialSheet,
                                 [i \in 1..Len(results) |-> results[p[i]]])
                = sheet

\* three results for three rows, not all with the same values, are in the
\* sheet
C10_ThreeRowsWritten ==
    /\ mpc = "done"
    /\ Len(results) = 3
    /\ DistinctResultRows
    /\ \E i, j \in 1..3 : results[i].BookScouter # results[j].BookScouter

----------------------------------------------------------------------------
(* Site B's indicator and the parsed values, under SpecExtract *)

\* a non-empty string whose first character is a digit
DigitLeading(s) == s # <<>> /\ s[1] \in Digits

\* C11: when site B's indicator element is present and its text contains
\* the phrase, the extraction returns 'Not profitable' whatever the profit
\* element holds, even when reading the profit element would raise; when
\* the indicator is absent or its wait times out, the extraction goes on to
\* the profit element, and returns the profit found there
C11_IndicatorBeforeProfit ==
    (xsite = "B" /\ xout # <<>> /\ xpage.pre = "ok")
    => /\ (xpage.probe = "ok" /\ Contains(xpage.indicator, Phrase))
          => xout[1] = Return(NotProfitable)
       /\ (/\ xpage.probe \in {"TimeoutException", "NoSuchElementException"}
           /\ xpage.post = "ok"
           /\ DigitLeading(Strip(xpage.profit, {"$"})))
          => xout[1] = Return(Strip(xpage.profit, {"$"}))

\* the phrase stands inside a longer indicator text while the profit
\* element cannot be read: the result is 'Not profitable'
C11_PhraseWinsOverProfit ==
    /\ xsite = "B"
    /\ xout = <<Return(NotProfitable)>>
    /\ xpage.indicator # Phrase
    /\ xpage.post = "TimeoutException"

\* the text after position i of a price text, trimmed of whitespace
AfterMarker(text, i) == Strip(Drop(text, i + 1), Whitespace)

\* the text between the first '$' and the next '$' (or the end), trimmed
FirstPiece(text) ==
    LET rest == Drop(text, IndexOf(text, "$", 1) + 1)
        j == IndexOf(rest, "$", 1)
    IN  Strip(IF j = 0 THEN rest ELSE SubSeq(rest, 1, j - 1), Whitespace)

\* C12 as claimed: for a site A price text holding a '$' followed by a
\* numeral, also a text with more than one '$', the extraction returns
\* exactly the text after that marker, trimmed of whitespace
C12_TextAfterMarker ==
    (/\ xsite = "A" /\ xout # <<>> /\ xpage.pre = "ok"
     /\ \E i \in 1..Len(xpage.text) :
            xpage.text[i] = "$" /\ DigitLeading(AfterMarker(xpage.text, i)))
    => \E i \in 1..Len(xpage.text) :
            /\ xpage.text[i] = "$"
            /\ DigitLeading(AfterMarker(xpage.text, i))
            /\ xout[1] = Return(AfterMarker(xpage.text, i))

\* C12, amended: for a site A price text whose first '$' is followed by a
\* numeral, the extraction returns the text between that marker and the
\* next '$' (the end of the text when there is no other), trimmed
C12_TextUpToNextMarker ==
    (/\ xsite = "A" /\ xout # <<>> /\ xpage.pre = "ok"
     /\ IndexOf(xpage.text, "$", 1) > 0
     /\ DigitLeading(FirstPiece(xpage.text)))
    => xout[1] = Return(FirstPiece(xpage.text))

\* a price text with two markers was parsed: '$1$' gave '1'
C12_SecondMarkerCutsPrice ==
    /\ xsite = "A"
    /\ xpage.pre = "ok"
    /\ xpage.text = <<"$", "1", "$">>
    /\ xout = <<Return(<<"1">>)>>

\* C13: a site A price text or site B profit text whose parsed string is
\* empty or does not begin with a digit, and a site A text without any '$',
\* gives 'N/A'; every value returned is a non-empty digit-leading string,
\* 'N/A', or, from site B only, 'Not profitable'
C13_ResultDomain ==
    xout # <<>>
    => /\ xout[1].kind = "return"
       /\ \/ DigitLeading(xout[1].val)
          \/ xout[1].val = NA
          \/ xsite = "B" /\ xout[1].val = NotProfitable
       /\ (/\ xsite = "A" /\ xpage.pre = "ok"
           /\ \/ IndexOf(xpage.text, "$", 1) = 0
              \/ ~DigitLeading(FirstPiece(xpage.text)))
          => xout[1].val = NA
       /\ (/\ xsite = "B" /\ ProfitReached(xpage) /\ xpage.post = "ok"
           /\ ~DigitLeading(Strip(xpage.profit, {"$"})))
          => xout[1].val = NA

\* a profit text that is only currency markers was read and gave 'N/A'
C13_EmptyProfitUnavailable ==
    /\ xsite = "B"
    /\ ProfitReached(xpage)
    /\ xpage.post = "ok"
    /\ xpage.profit = <<"$", "$">>
    /\ xout = <<Return(NA)>>

\* C15: a status write (update_processing_status) either stores its record
\* or leaves process_pubsub_message with the error it raised, and a sheet
\* write (update_cell) either writes its cell or leaves
\* process_pubsub_message with the error it raised; the error is not
\* turned into a result value, the message is not acknowledged, and
\* nothing in the pipeline runs after it
C15_WriteErrorsPropagate ==
    [][/\ mpc = "mark"
          => \/ /\ Len(marks') = Len(marks) + 1
                /\ mpc' = "loop"
             \/ /\ mpc' = "raised"
                /\ mexc' = "GoogleAPICallError"
                /\ results' = <<>>
                /\ UNCHANGED <<store, marks, sheet, acked>>
       /\ (mpc = "sheet" /\ spos[1] <= Len(results))
          => \/ /\ sheet' = update_cell(sheet, results[spos[1]].RowIndex,
                                        spos[2],
                                        IF spos[2] = ColE
                                        THEN results[spos[1]].BookScouter
                                        ELSE results[spos[1]].RestrictedInventory)
                /\ spos' # spos
                /\ mpc' = "sheet"
             \/ /\ mpc' = "raised"
                /\ mexc' = "APIError"
                /\ results' = <<>>
                /\ UNCHANGED <<store, marks, sheet, acked>>
       /\ mpc # "raised"
      ]_vars

\* a sheet write raised after an earlier one had gone through, and the
\* error left the pipeline
C15_SheetWriteRaised ==
    /\ mpc = "raised"
    /\ mexc = "APIError"
    /\ sheet # InitialSheet
    /\ ~acked

----------------------------------------------------------------------------
(* Order of the results of process_batch, checked under Spec *)

\* C17: whatever the order in which the workers complete, the list that
\* process_batch builds and returns is in input order: its i-th result
\* has the ISBN and the RowIndex of the i-th item of the batch, and the
\* returned list has one result per item
C17_ResultsInInputOrder ==
    /\ Len(results) <= Len(isbn_data)
    /\ \A i \in 1..Len(results) :
          /\ results[i].ISBN = isbn_data[i][1]
          /\ results[i].RowIndex = isbn_data[i][2]
    /\ mpc = "returned" => Len(results) = Len(isbn_data)

\* a later item has completed while an earlier one is still running, and
\* the list read so far stops before the earlier one
C17_LaterItemCompletedFirst ==
    /\ Len(results) >= 1
    /\ \E i, j \in 1..Len(fut) :
          /\ i < j
          /\ i = Len(results) + 1
          /\ fut[i].state = "running"
          /\ fut[j].state = "done"

----------------------------------------------------------------------------
(* Acknowledgement and failures of the queue-triggered path, under
   SpecQueue *)

\* C18: when message.ack() has been called, nothing had raised, and every
\* element of the message has its result, a 'processed' record in the
\* store, and both of its sheet cells written; once item processing, a
\* status write or a sheet write has raised, the message is not
\* acknowledged
C18_AckOnlyAfterAllWritten ==
    /\ acked
       => /\ mexc = "none"
          /\ isbn_batch # <<>>
          /\ Len(results) = Len(isbn_batch)
          /\ Len(marks) = Len(isbn_batch)
          /\ spos = <<Len(results) + 1, ColE>>
          /\ \A i \in 1..Len(isbn_batch) :
                /\ Len(isbn_batch[i]) = 2
                /\ results[i].ISBN = isbn_batch[i][1]
                /\ results[i].RowIndex = isbn_batch[i][2]
                /\ \E d \in store :
                      d.id = isbn_batch[i][1] /\ d.status = "processed"
                /\ sheet[<<RowNumber(isbn_batch[i][2]), ColE>>] # Old
                /\ sheet[<<RowNumber(isbn_batch[i][2]), ColF>>] # Old
    /\ (mexc # "none" \/ mpc = "raised") => ~acked

\* a message of two elements was acknowledged, one of its extractions
\* having come back 'N/A'
C18_AckedWithSentinel ==
    /\ acked
    /\ Len(isbn_batch) = 2
    /\ \E i \in 1..Len(results) : results[i].BookScouter = NA

\* the runs of process_isbn that got through: session opened, both sites
\* read, session quit
CompleteCall == <<"open", "A", "B", "quit">>

\* the first element of the message whose process_isbn did not get through
FirstIncomplete ==
    CHOOSE k \in 1..Len(calls) :
        /\ calls[k] # CompleteCall
        /\ \A i \in 1..(k - 1) : calls[i] = CompleteCall

\* C19: when process_isbn raised for the k-th element of a message (its
\* session did not start), the elements before k each have their
\* 'processed' record, no record was written for the k-th or a later
\* element, no 'failed' status was written, no session was opened for the
\* k-th or a later element, no cell of the sheet was written, and the
\* message is not acknowledged
C19_FailedItemStopsMessage ==
    (mpc = "raised" /\ mexc = "WebDriverException")
    => /\ \E k \in 1..Len(calls) : calls[k] # CompleteCall
       /\ LET k == FirstIncomplete
          IN  /\ Len(marks) = k - 1
              /\ \A i \in 1..(k - 1) :
                    /\ marks[i].id = isbn_batch[i][1]
                    /\ marks[i].status = "processed"
                    /\ \E d \in store :
                          d.id = isbn_batch[i][1] /\ d.status = "processed"
              /\ calls[k] \in {<<>>, <<"orphan">>}
              /\ \A i \in (k + 1)..Len(calls) : calls[i] = <<>>
       /\ \A d \in store : d.status # "failed"
       /\ \A i \in 1..Len(marks) : marks[i].status # "failed"
       /\ sheet = InitialSheet
       /\ ~acked

\* the third element's session did not start, after two elements were
\* processed and marked
C19_ThirdItemFailed ==
    /\ mpc = "raised"
    /\ mexc = "WebDriverException"
    /\ Len(isbn_batch) = 3
    /\ Len(marks) = 2

\* an element that cannot be unpacked into isbn, row_index
Malformed(e) == Len(e) # 2

\* C20: the elements of a message are the pieces of its payload between
\* the commas, and an element is unpacked into its first and its second
\* character; when the payload has an element that is not of exactly two
\* components, process_isbn is never called for that element or a later
\* one, no session is opened for them, no cell of the sheet is written,
\* the message is not acknowledged, and the unpacking of that element
\* leaves the pipeline with ValueError after the elements before it have
\* been processed
C20_MalformedElement ==
    /\ mpc # "message" => Join(isbn_batch, ",") = data
    /\ mpc = "call"
       => /\ ~Malformed(isbn_batch[tinv[0]])
          /\ targ[0] = <<isbn_batch[tinv[0]][1], isbn_batch[tinv[0]][2]>>
    /\ (\E i \in 1..Len(isbn_batch) : Malformed(isbn_batch[i]))
       => LET k == CHOOSE k \in 1..Len(isbn_batch) :
                      /\ Malformed(isbn_batch[k])
                      /\ \A i \in 1..(k - 1) : ~Malformed(isbn_batch[i])
          IN  /\ tinv[0] < k
              /\ \A i \in k..Len(calls) : calls[i] = <<>>
              /\ Len(results) < k
              /\ mpc \notin {"sheet", "ack", "done"}
              /\ sheet = InitialSheet
              /\ ~acked
              /\ (mpc = "raised" /\ mexc = "ValueError")
                 => /\ Len(marks) = k - 1
                    /\ \A i \in 1..(k - 1) : calls[i] = CompleteCall

\* the second element of a message had three components: the first
\* element was processed and marked, then the unpacking raised
C20_UnpackRaised ==
    /\ mpc = "raised"
    /\ mexc = "ValueError"
    /\ Len(isbn_batch) >= 2
    /\ Len(isbn_batch[2]) = 3
    /\ Len(marks) = 1
    /\ sheet = InitialSheet

----------------------------------------------------------------------------
(* The triggering endpoint: process_request calls listen_for_messages,
   which subscribes process_pubsub_message as the callback and blocks in
   streaming_pull_future.result().  The subscriber runs the callback in a
   thread of its own: an exception of the callback is the subscriber's to
   log and does not end the pull, and a callback that has started goes on
   whatever the request does *)

\* lines 166-168, outside the try block: the client is made and the
\* callback subscribed; an exception here leaves process_request, and the
\* framework answers 500
subscribe ==
    /\ hpc = "request"
    /\ \/ /\ hpc' = "pulling"
          /\ UNCHANGED response
       \/ /\ hpc' = "responded"
          /\ response' = 500
    /\ UNCHANGED <<web, isbn_data, nsub, qhead, fut, mpc, mexc, results, tpc,
                   tinv, targ, driver, tA, tret, texc, open, orphans, calls,
                   uses, extractVars, storeVars, data, isbn_batch, sheet,
                   spos, acked, pull, cancelled>>

\* the subscriber hands the message to the callback
deliver ==
    /\ hpc = "pulling"
    /\ mpc = "waiting"
    /\ mpc' = "message"
    /\ UNCHANGED <<web, isbn_data, nsub, qhead, fut, mexc, results, tpc, tinv,
                   targ, driver, tA, tret, texc, open, orphans, calls, uses,
                   extractVars, storeVars, queueVars>>

\* variant: listen_for_messages without its try block
result_uncaught ==
    /\ hpc = "pulling"
    /\ \/ /\ pull' = "normal"
          /\ hpc' = "return"
          /\ UNCHANGED response
       \/ /\ pull' = "error"
          /\ hpc' = "responded"
          /\ response' = 500
    /\ UNCHANGED <<web, isbn_data, nsub, qhead, fut, mpc, mexc, results, tpc,
                   tinv, targ, driver, tA, tret, texc, open, orphans, calls,
                   uses, extractVars, storeVars, data, isbn_batch, sheet,
                   spos, acked, cancelled>>

\* lines 170-172: streaming_pull_future.result() returns, or raises and the
\* except clause is entered
result ==
    /\ hpc = "pulling"
    /\ \/ /\ pull' = "normal"
          /\ hpc' = "return"
       \/ /\ pull' = "error"
          /\ hpc' = "except"
    /\ UNCHANGED <<web, isbn_data, nsub, qhead, fut, mpc, mexc, results, tpc,
                   tinv, targ, driver, tA, tret, texc, open, orphans, calls,
                   uses, extractVars, storeVars, data, isbn_batch, sheet,
                   spos, acked, cancelled, response>>

\* lines 173-174: streaming_pull_future.cancel(), then the error is logged
cancel ==
    /\ hpc = "except"
    /\ cancelled' = TRUE
    /\ hpc' = "return"
    /\ UNCHANGED <<web, isbn_data, nsub, qhead, fut, mpc, mexc, results, tpc,
                   tinv, targ, driver, tA, tret, texc, open, orphans, calls,
                   uses, extractVars, storeVars, data, isbn_batch, sheet,
                   spos, acked, pull, response>>

listen_for_messages ==
    \/ subscribe
    \/ result
    \/ cancel

\* line 202: return "Processing complete", 200
respond ==
    /\ hpc = "return"
    /\ response' = 200
    /\ hpc' = "responded"
    /\ UNCHANGED <<web, isbn_data, nsub, qhead, fut, mpc, mexc, results, tpc,
                   tinv, targ, driver, tA, tret, texc, open, orphans, calls,
                   uses, extractVars, storeVars, data, isbn_batch, sheet,
                   spos, acked, pull, cancelled>>

process_request ==
    \/ listen_for_messages
    \/ respond

\* a POST has arrived; the subscription holds one message
InitHttp ==
    /\ hpc = "request"
    /\ pull = "running"
    /\ cancelled = FALSE
    /\ response = 0
    /\ data \in Payloads
    /\ isbn_batch = <<>>
    /\ sheet = InitialSheet
    /\ spos = <<1, ColE>>
    /\ acked = FALSE
    /\ web = WebOf(QueueIsbns, 0)
    /\ NoBatch
    /\ mpc = "waiting"
    /\ mexc = "none"
    /\ results = <<>>
    /\ calls = <<>>
    /\ IdleThreads
    /\ NoExtraction
    /\ EmptyStore

NextHttp ==
    \/ process_request
    \/ deliver
    \/ process_pubsub_message

SpecHttp == InitHttp /\ [][NextHttp]_vars

\* C14: once the pull loop has ended, normally or with an error, and
\* whatever the extractions of the callback returned, the response that
\* process_request sends is 200; an error of the pull loop is caught in
\* listen_for_messages, which cancels the subscription before it returns,
\* and no 500 is sent after the loop has ended
C14_SuccessAfterPullLoop ==
    /\ (pull # "running" /\ hpc = "responded") => response = 200
    /\ pull # "running" => response \in {0, 200}
    /\ response = 200 => (pull # "running" /\ hpc = "responded")
    /\ (pull = "error" /\ hpc \in {"return", "responded"}) => cancelled
    /\ cancelled => pull = "error"

\* the pull loop ended with an error and was cancelled, the callback's
\* message was processed with an extraction that came back 'N/A', and the
\* response was 200
C14_SuccessDespiteError ==
    /\ hpc = "responded"
    /\ response = 200
    /\ pull = "error"
    /\ cancelled
    /\ \E i \in 1..Len(results) : results[i].BookScouter = NA

----------------------------------------------------------------------------
(* Progress of process_batch: every thread that can take a step of its own
   eventually takes one.  The coordinating thread and each pool worker are
   operating-system threads, and process_isbn is taken to terminate *)

Fairness ==
    /\ WF_vars(process_batch)
    /\ \A w \in Workers :
          WF_vars(worker_take(w) \/ worker_done(w) \/ process_isbn(w))

SpecFair == Spec /\ Fairness

\* item i was handed to a worker, which ran process_isbn for it
Dispatched(i) ==
    /\ i <= Len(fut)
    /\ fut[i].state \in {"running", "done", "failed"}

\* the work items a worker is running
Running == {i \in 1..Len(fut) : fut[i].state = "running"}

\* C16: at any time at most CONCURRENT_BROWSERS items are running, one per
\* busy worker, and an item is handed to a worker only after all items
\* before it in the batch have left the queue; with fair scheduling every
\* item of the batch is eventually dispatched, none is dropped, and
\* process_batch eventually terminates
C16_EveryItemDispatched ==
    /\ [](/\ Cardinality(Running) <= CONCURRENT_BROWSERS
          /\ Cardinality(Running)
                = Cardinality({w \in Workers : tpc[w] # "idle"})
          /\ \A i \in 1..Len(fut) :
                Dispatched(i) => \A j \in 1..(i - 1) : fut[j].state # "pending")
    /\ \A i \in 1..MaxBatch : [](i <= Len(isbn_data) => <>Dispatched(i))
    /\ [](BatchOver => \A i \in 1..Len(isbn_data) : Dispatched(i))
    /\ <>BatchOver

====
